---------------------------- MODULE Spec2Model ----------------------------
(***************************************************************************)
(* A model of the bank node of LeZajoch/alfa-3: the ledger (src/bank.py),  *)
(* the command handlers and the dispatcher (src/src/command_handler.py)    *)
(* and the start of the process (src/src/main.py).                         *)
(*                                                                         *)
(* Text.  A Python str is a sequence of one-character strings, so that     *)
(* split, join, int() and str() are computed and not assumed.  The fixed   *)
(* messages of the source, which the program never takes apart, are kept   *)
(* as one element each.                                                    *)
(*                                                                         *)
(* Specifications.  Spec takes the commands one after the other, each     *)
(* with its save_data; LoadSpec is the start on a file found on disk;      *)
(* InputSpec takes the lines that are not well formed; ServerSpec and      *)
(* ConnectionSpec take the threads of the server step by step, with all    *)
(* clients connected and with one client; ShutdownSpec adds the interrupt  *)
(* of the main thread.                                                     *)
(*                                                                         *)
(* Scale.  The account range 10000..99999 is kept from 10000 up but cut to *)
(* AccountRange numbers, and the amount limit 2^63-1 is MaxNumber; Python  *)
(* integers are unbounded, so no arithmetic of the model wraps.            *)
(***************************************************************************)
EXTENDS Integers, Sequences, FiniteSets, TLC

VARIABLES accounts, free_accounts, next_account_number, file, last,
          account_lock, temp_file, client, future, main

\* the state of the threads of the server: the ledger lock, accounts.json.tmp,
\* the connection threads, the units of work of their executors and the
\* main thread
server_vars == <<account_lock, temp_file, client, future, main>>

vars ==
    <<accounts, free_accounts, next_account_number, file, last,
      account_lock, temp_file, client, future, main>>

---------------------------------------------------------------------------
(* Bounds of the model and constants of the program *)

\* first account number, Bank.__init__
MinAccountNumber == 10000

\* how many numbers of the account range the model keeps (the code: 90000)
AccountRange == 2

\* the last account number (the code: 99999)
MaxAccountNumber == MinAccountNumber + AccountRange - 1

\* the largest amount validate_number accepts (the code: 9223372036854775807)
MaxNumber == 2

\* deposits that would take a balance above this are not explored
MaxBalance == MaxNumber + 1

\* the bank code of this node, and the bank code of another node
BankCode == <<"7">>

OtherBankCode == <<"8">>

---------------------------------------------------------------------------
(* Text: str(), int(), split(), join() *)

Digits == <<"0", "1", "2", "3", "4", "5", "6", "7", "8", "9">>

DigitSet == {Digits[i] : i \in 1..10}

DigitValue(c) == (CHOOSE i \in 1..10 : Digits[i] = c) - 1

RECURSIVE NatToStr(_)
NatToStr(n) ==
    IF n < 10 THEN <<Digits[n + 1]>>
    ELSE NatToStr(n \div 10) \o <<Digits[(n % 10) + 1]>>

\* str(n) of an int
IntToStr(n) == IF n < 0 THEN <<"-">> \o NatToStr(-n) ELSE NatToStr(n)

RECURSIVE DigitsToNat(_)
DigitsToNat(s) ==
    IF s = <<>> THEN 0
    ELSE 10 * DigitsToNat(SubSeq(s, 1, Len(s) - 1)) + DigitValue(s[Len(s)])

\* int(s) of a str without blanks or underscores: an optional sign and at
\* least one digit, and ValueError (ok = FALSE) for anything else
ParseInt(s) ==
    LET signed == s # <<>> /\ s[1] \in {"+", "-"}
        body == IF signed THEN Tail(s) ELSE s
        value == DigitsToNat(body)
    IN  IF body # <<>> /\ \A i \in 1..Len(body) : body[i] \in DigitSet
        THEN [ok |-> TRUE, val |-> IF signed /\ s[1] = "-" THEN -value ELSE value]
        ELSE [ok |-> FALSE, val |-> 0]

\* sep in s
Contains(s, sep) == \E i \in 1..Len(s) : s[i] = sep

RECURSIVE SplitOn(_, _)
\* s.split(sep): the pieces between the separators, empty pieces kept
SplitOn(s, sep) ==
    IF ~Contains(s, sep) THEN <<s>>
    ELSE LET i == CHOOSE j \in 1..Len(s) :
                      s[j] = sep /\ \A k \in 1..(j - 1) : s[k] # sep
         IN  <<SubSeq(s, 1, i - 1)>> \o SplitOn(SubSeq(s, i + 1, Len(s)), sep)

NonEmpty(piece) == piece # <<>>

\* s.split(): the pieces between runs of blanks, no empty piece
SplitBlank(s) == SelectSeq(SplitOn(s, " "), NonEmpty)

RECURSIVE Join(_, _)
\* sep.join(parts)
Join(parts, sep) ==
    IF parts = <<>> THEN <<>>
    ELSE IF Len(parts) = 1 THEN parts[1]
    ELSE parts[1] \o <<sep>> \o Join(Tail(parts), sep)

---------------------------------------------------------------------------
(* The ledger: class Bank *)

\* the exceptions Bank raises, by their message; NoException: none raised
NoException == "none"

NO_CREATION == "OUR BANK DOES NOT ALLOW NEW ACCOUNT CREATION."

FORMAT_BOTH == "ACCOUNT NUMBER AND AMOUNT ARE NOT IN THE CORRECT FORMAT."

FORMAT_ACCOUNT == "THE ACCOUNT NUMBER FORMAT IS NOT CORRECT."

INSUFFICIENT == "INSUFFICIENT FUNDS"

HAS_FUNDS == "CANNOT DELETE AN ACCOUNT THAT HAS FUNDS."

\* a method's return value: <<v>>, or <<>> when it returns None or raises
NoValue == <<>>

\* {}
EmptyDict == [x \in {} |-> 0]

\* the ledger fields of the Bank instance
Ledger ==
    [accounts |-> accounts,
     free_accounts |-> free_accounts,
     next_account_number |-> next_account_number]

\* Bank.__init__
NewBank ==
    [accounts |-> EmptyDict,
     free_accounts |-> <<>>,
     next_account_number |-> MinAccountNumber]

\* what a method of Bank does: the ledger after it, the exception it raised
\* and the value it returned
Outcome(L, exc, ret) == [L |-> L, exc |-> exc, ret |-> ret]

\* d[k] = v on a dict
DictSet(d, k, v) == [x \in DOMAIN d \cup {k} |-> IF x = k THEN v ELSE d[x]]

\* del d[k]
DictDel(d, k) == [x \in DOMAIN d \ {k} |-> d[x]]

\* list.sort() on a list of ints
Sorted(s) == SortSeq(s, LAMBDA x, y : x < y)

\* create_account with pop() for pop(0): the largest free number is reused
\* first.  C5 fails on it.
create_account_pops_last(L) ==
    IF L.free_accounts # <<>>
    THEN LET account_number == L.free_accounts[Len(L.free_accounts)]
         IN  Outcome([L EXCEPT !.free_accounts =
                                   SubSeq(L.free_accounts, 1, Len(L.free_accounts) - 1),
                               !.accounts = DictSet(L.accounts, account_number, 0)],
                     NoException, <<account_number>>)
    ELSE IF L.next_account_number > MaxAccountNumber
         THEN Outcome(L, NO_CREATION, NoValue)
         ELSE LET account_number == L.next_account_number
              IN  Outcome([L EXCEPT !.next_account_number = L.next_account_number + 1,
                                    !.accounts = DictSet(L.accounts, account_number, 0)],
                          NoException, <<account_number>>)

\* create_account without the test of next_account_number against the end
\* of the range.  C6 fails on it.
create_account_no_limit(L) ==
    IF L.free_accounts # <<>>
    THEN LET account_number == Head(L.free_accounts)
         IN  Outcome([L EXCEPT !.free_accounts = Tail(L.free_accounts),
                               !.accounts = DictSet(L.accounts, account_number, 0)],
                     NoException, <<account_number>>)
    ELSE LET account_number == L.next_account_number
         IN  Outcome([L EXCEPT !.next_account_number = L.next_account_number + 1,
                               !.accounts = DictSet(L.accounts, account_number, 0)],
                     NoException, <<account_number>>)

\* create_account without pop(0): the recycled number stays in the free list.
\* C33 fails on it.
create_account_keeps_free(L) ==
    IF L.free_accounts # <<>>
    THEN LET account_number == Head(L.free_accounts)
         IN  Outcome([L EXCEPT !.accounts = DictSet(L.accounts, account_number, 0)],
                     NoException, <<account_number>>)
    ELSE IF L.next_account_number > MaxAccountNumber
         THEN Outcome(L, NO_CREATION, NoValue)
         ELSE LET account_number == L.next_account_number
              IN  Outcome([L EXCEPT !.next_account_number = L.next_account_number + 1,
                                    !.accounts = DictSet(L.accounts, account_number, 0)],
                          NoException, <<account_number>>)

\* Bank.create_account
create_account(L) ==
    IF L.free_accounts # <<>>
    THEN LET account_number == Head(L.free_accounts)
         IN  Outcome([L EXCEPT !.free_accounts = Tail(L.free_accounts),
                               !.accounts = DictSet(L.accounts, account_number, 0)],
                     NoException, <<account_number>>)
    ELSE IF L.next_account_number > MaxAccountNumber
         THEN Outcome(L, NO_CREATION, NoValue)
         ELSE LET account_number == L.next_account_number
              IN  Outcome([L EXCEPT !.next_account_number = L.next_account_number + 1,
                                    !.accounts = DictSet(L.accounts, account_number, 0)],
                          NoException, <<account_number>>)

\* deposit with = for +=: the amount replaces the balance.  C9 fails on it.
deposit_overwrites(L, account_number, amount) ==
    IF account_number \notin DOMAIN L.accounts
    THEN Outcome(L, FORMAT_BOTH, NoValue)
    ELSE Outcome([L EXCEPT !.accounts[account_number] = amount],
                 NoException, NoValue)

\* Bank.deposit
deposit(L, account_number, amount) ==
    IF account_number \notin DOMAIN L.accounts
    THEN Outcome(L, FORMAT_BOTH, NoValue)
    ELSE Outcome([L EXCEPT !.accounts[account_number] = @ + amount],
                 NoException, NoValue)

\* withdraw with <= for <: the whole balance cannot be withdrawn.  C7 fails
\* on it.
withdraw_strict(L, account_number, amount) ==
    IF account_number \notin DOMAIN L.accounts
    THEN Outcome(L, FORMAT_BOTH, NoValue)
    ELSE IF L.accounts[account_number] <= amount
         THEN Outcome(L, INSUFFICIENT, NoValue)
         ELSE Outcome([L EXCEPT !.accounts[account_number] = @ - amount],
                      NoException, NoValue)

\* withdraw emptying the account whatever the amount.  C34 fails on it.
withdraw_all(L, account_number, amount) ==
    IF account_number \notin DOMAIN L.accounts
    THEN Outcome(L, FORMAT_BOTH, NoValue)
    ELSE IF L.accounts[account_number] < amount
         THEN Outcome(L, INSUFFICIENT, NoValue)
         ELSE Outcome([L EXCEPT !.accounts[account_number] = 0],
                      NoException, NoValue)

\* withdraw taking what is there before it raises for insufficient funds.
\* C35 fails on it.
withdraw_debits_before_check(L, account_number, amount) ==
    IF account_number \notin DOMAIN L.accounts
    THEN Outcome(L, FORMAT_BOTH, NoValue)
    ELSE IF L.accounts[account_number] < amount
         THEN Outcome([L EXCEPT !.accounts[account_number] = 0],
                      INSUFFICIENT, NoValue)
         ELSE Outcome([L EXCEPT !.accounts[account_number] = @ - amount],
                      NoException, NoValue)

\* Bank.withdraw
withdraw(L, account_number, amount) ==
    IF account_number \notin DOMAIN L.accounts
    THEN Outcome(L, FORMAT_BOTH, NoValue)
    ELSE IF L.accounts[account_number] < amount
         THEN Outcome(L, INSUFFICIENT, NoValue)
         ELSE Outcome([L EXCEPT !.accounts[account_number] = @ - amount],
                      NoException, NoValue)

\* get_balance returning 0 for every account.  C23 fails on it.
get_balance_zero(L, account_number) ==
    IF account_number \notin DOMAIN L.accounts
    THEN Outcome(L, FORMAT_ACCOUNT, NoValue)
    ELSE Outcome(L, NoException, <<0>>)

\* Bank.get_balance
get_balance(L, account_number) ==
    IF account_number \notin DOMAIN L.accounts
    THEN Outcome(L, FORMAT_ACCOUNT, NoValue)
    ELSE Outcome(L, NoException, <<L.accounts[account_number]>>)

\* remove_account without del self.accounts[account_number]: the number is
\* recycled and the account stays.  C1 fails on it.
remove_account_keeps_account(L, account_number) ==
    IF account_number \notin DOMAIN L.accounts
    THEN Outcome(L, FORMAT_ACCOUNT, NoValue)
    ELSE IF L.accounts[account_number] # 0
         THEN Outcome(L, HAS_FUNDS, NoValue)
         ELSE Outcome([L EXCEPT !.free_accounts =
                                    Sorted(Append(L.free_accounts, account_number))],
                      NoException, NoValue)

\* remove_account without self.free_accounts.sort().  C4 fails on it.
remove_account_unsorted(L, account_number) ==
    IF account_number \notin DOMAIN L.accounts
    THEN Outcome(L, FORMAT_ACCOUNT, NoValue)
    ELSE IF L.accounts[account_number] # 0
         THEN Outcome(L, HAS_FUNDS, NoValue)
         ELSE Outcome([L EXCEPT !.accounts = DictDel(L.accounts, account_number),
                                !.free_accounts = Append(L.free_accounts, account_number)],
                      NoException, NoValue)

\* remove_account without the test of the balance.  C8 fails on it.
remove_account_with_funds(L, account_number) ==
    IF account_number \notin DOMAIN L.accounts
    THEN Outcome(L, FORMAT_ACCOUNT, NoValue)
    ELSE Outcome([L EXCEPT !.accounts = DictDel(L.accounts, account_number),
                           !.free_accounts =
                               Sorted(Append(L.free_accounts, account_number))],
                 NoException, NoValue)

\* Bank.remove_account
remove_account(L, account_number) ==
    IF account_number \notin DOMAIN L.accounts
    THEN Outcome(L, FORMAT_ACCOUNT, NoValue)
    ELSE IF L.accounts[account_number] # 0
         THEN Outcome(L, HAS_FUNDS, NoValue)
         ELSE Outcome([L EXCEPT !.accounts = DictDel(L.accounts, account_number),
                                !.free_accounts =
                                    Sorted(Append(L.free_accounts, account_number))],
                      NoException, NoValue)

RECURSIVE SumValues(_)
\* sum(d.values())
SumValues(d) ==
    IF DOMAIN d = {} THEN 0
    ELSE LET k == CHOOSE x \in DOMAIN d : TRUE
         IN  d[k] + SumValues(DictDel(d, k))

\* Bank.get_total_amount
get_total_amount(L) == Outcome(L, NoException, <<SumValues(L.accounts)>>)

\* Bank.get_client_count
get_client_count(L) == Outcome(L, NoException, <<Cardinality(DOMAIN L.accounts)>>)

---------------------------------------------------------------------------
(* Persistence: accounts.json *)

\* no accounts.json in the working directory
NoFile == [exists |-> FALSE]

\* a JSON number and a JSON string, as json.load returns them
JNumber(n) == [number |-> n]

JString(s) == [string |-> s]

\* int(x) of a value json.load returned: the number itself, the int a
\* string spells, and ValueError (ok = FALSE) for a string that spells none
IntOf(x) ==
    IF "number" \in DOMAIN x THEN [ok |-> TRUE, val |-> x.number]
    ELSE ParseInt(x.string)

\* [f(x) for x in s]
RECURSIVE MapJNumber(_)
MapJNumber(s) ==
    IF s = <<>> THEN <<>> ELSE <<JNumber(Head(s))>> \o MapJNumber(Tail(s))

RECURSIVE MapIntOf(_)
MapIntOf(s) ==
    IF s = <<>> THEN <<>> ELSE <<IntOf(Head(s)).val>> \o MapIntOf(Tail(s))

\* what json.dump writes for the ledger and json.load reads back: the keys
\* of the accounts object are strings, the free numbers are numbers
json_dump(L) ==
    [accounts |->
         [s \in {IntToStr(k) : k \in DOMAIN L.accounts} |->
              L.accounts[CHOOSE k \in DOMAIN L.accounts : IntToStr(k) = s]],
     free_accounts |-> MapJNumber(L.free_accounts),
     next_account_number |-> L.next_account_number]

\* Bank.save_data: the file after it
save_data(L) == [exists |-> TRUE, data |-> json_dump(L)]

\* a file that json.load cannot parse
Garbage == [exists |-> TRUE]

\* data.get(key, default) on the three keys of a snapshot
GetAccounts(data) ==
    IF "accounts" \in DOMAIN data THEN data.accounts ELSE EmptyDict

GetFreeAccounts(data) ==
    IF "free_accounts" \in DOMAIN data THEN data.free_accounts ELSE <<>>

GetNextAccountNumber(data) ==
    IF "next_account_number" \in DOMAIN data
    THEN data.next_account_number ELSE MinAccountNumber

\* {int(k): v for k, v in d.items()}
IntKeys(d) ==
    [n \in {ParseInt(k).val : k \in DOMAIN d} |->
         d[CHOOSE k \in DOMAIN d : ParseInt(k).val = n]]

\* load_data without the assignment of next_account_number.  C10 fails on
\* it.
load_data_without_next(L, f) ==
    IF ~f.exists \/ "data" \notin DOMAIN f THEN L
    ELSE LET data == f.data
             keys == GetAccounts(data)
             free == GetFreeAccounts(data)
         IN  IF \E k \in DOMAIN keys : ~ParseInt(k).ok THEN L
             ELSE IF \E i \in 1..Len(free) : ~IntOf(free[i]).ok
             THEN [L EXCEPT !.accounts = IntKeys(keys)]
             ELSE [accounts |-> IntKeys(keys),
                   free_accounts |-> Sorted(MapIntOf(free)),
                   next_account_number |-> L.next_account_number]

\* Bank.load_data: the ledger after it.  No file: the ledger stays as it
\* is.  An exception is swallowed where it is raised and the assignments
\* made before it stay: json.load raising and int(k) raising on a key of
\* accounts come before any assignment, int(x) raising on a free number
\* comes after self.accounts was assigned.
load_data(L, f) ==
    IF ~f.exists \/ "data" \notin DOMAIN f THEN L
    ELSE LET data == f.data
             keys == GetAccounts(data)
             free == GetFreeAccounts(data)
         IN  IF \E k \in DOMAIN keys : ~ParseInt(k).ok THEN L
             ELSE IF \E i \in 1..Len(free) : ~IntOf(free[i]).ok
             THEN [L EXCEPT !.accounts = IntKeys(keys)]
             ELSE [accounts |-> IntKeys(keys),
                   free_accounts |-> Sorted(MapIntOf(free)),
                   next_account_number |-> GetNextAccountNumber(data)]

---------------------------------------------------------------------------
(* Validation and the proxy *)

\* validate_account_number without the upper end of the range.  C30 fails
\* on it.
validate_account_number_no_upper_bound(account_num) ==
    MinAccountNumber <= account_num

\* validate_account_number
validate_account_number(account_num) ==
    MinAccountNumber <= account_num /\ account_num <= MaxAccountNumber

\* validate_number without its lower bound.  C2 fails on it.
validate_number_no_lower_bound(number) == number <= MaxNumber

\* validate_number
validate_number(number) == 0 <= number /\ number <= MaxNumber

Blanks == {" ", "\t", "\r", "\n"}

RECURSIVE LStrip(_)
LStrip(s) == IF s # <<>> /\ s[1] \in Blanks THEN LStrip(Tail(s)) ELSE s

RECURSIVE RStrip(_)
RStrip(s) ==
    IF s # <<>> /\ s[Len(s)] \in Blanks
    THEN RStrip(SubSeq(s, 1, Len(s) - 1)) ELSE s

\* s.strip()
Strip(s) == RStrip(LStrip(s))

ER == <<"E", "R", " ">>

PROXY_ERROR == <<"PROXY ERROR: ">>

\* proxy_command returning the message of the exception alone, without
\* "ER PROXY ERROR: ".  C14 fails on it.
proxy_command_bare_message(remote_ip, command, net) ==
    IF net.kind = "raise" THEN net.detail
    ELSE Strip(net.received)

\* proxy_command.  net is what the network does with the call: it fails
\* (connect, send or recv raises, detail being str(e)), or it delivers
\* `received` before the line end is seen or the peer closes.
proxy_command(remote_ip, command, net) ==
    IF net.kind = "raise" THEN ER \o PROXY_ERROR \o net.detail
    ELSE Strip(net.received)

\* what the network may do with one proxied command
NetBehaviours ==
    {[kind |-> "raise", detail |-> <<"timed out">>, received |-> <<>>],
     [kind |-> "data", detail |-> <<>>, received |-> <<"A", "D", "\r", "\n">>],
     [kind |-> "data", detail |-> <<>>, received |-> <<>>]}

\* the network when no remote node is called
NoNet == [kind |-> "none", detail |-> <<>>, received |-> <<>>]

---------------------------------------------------------------------------
(* The command handlers *)

KW_HELP == <<"H", "E", "L", "P">>

KW_BC == <<"B", "C">>

KW_AC == <<"A", "C">>

KW_AD == <<"A", "D">>

KW_AW == <<"A", "W">>

KW_AB == <<"A", "B">>

KW_AR == <<"A", "R">>

KW_BA == <<"B", "A">>

KW_BN == <<"B", "N">>

\* the message HELPCommand.execute returns
HELP_MESSAGE ==
    <<"Available Commands:\r\n",
      "BC - returns bank code\r\n",
      "AC - creates an account and returns its number\r\n",
      "AD - adds money to account\r\n",
      "AW - withdraws money from account\r\n",
      "AB - returns account balance\r\n",
      "AR - deletes account if empty\r\n",
      "BA - returns bank value\r\n",
      "BN - returns number of clients in bank\r\n">>

\* the call a handler made on the Bank: the method, its arguments, the
\* balance of the account it names before the call (<<>>: no such account),
\* the exception raised and the value returned
NoCall ==
    [method |-> "none", account_number |-> 0, amount |-> 0,
     before |-> <<>>, exc |-> NoException, ret |-> <<>>]

Call(method, account_number, amount, L, out) ==
    [method |-> method, account_number |-> account_number, amount |-> amount,
     before |-> IF account_number \in DOMAIN L.accounts
                THEN <<L.accounts[account_number]>> ELSE <<>>,
     exc |-> out.exc, ret |-> out.ret]

\* how execute ends: kind is "return", or the class of the exception
\* raised; text is the value returned or the message of the exception; L
\* the ledger after it; logs counts its calls of logger.log
Result(kind, text, L, call, logs, proxied) ==
    [kind |-> kind, text |-> text, L |-> L, call |-> call, logs |-> logs,
     proxied |-> proxied]

\* raise CommandError(message) before the Bank is called
CommandError(message, L) ==
    Result("CommandError", <<message>>, L, NoCall, 0, FALSE)

\* HELPCommand.execute
HELPCommand_execute(args, L) ==
    Result("return", HELP_MESSAGE, L, NoCall, 0, FALSE)

\* BCCommand.execute
BCCommand_execute(args, L) ==
    IF Len(args) # 1
    THEN CommandError("INVALID NUMBER OF ARGUMENTS FOR BC", L)
    ELSE Result("return", KW_BC \o <<" ">> \o BankCode, L, NoCall, 1, FALSE)

\* ACCommand.execute
ACCommand_execute(args, L) ==
    IF Len(args) # 1
    THEN CommandError("INVALID NUMBER OF ARGUMENTS FOR AC", L)
    ELSE LET out == create_account(L)
             call == Call("create_account", 0, 0, L, out)
         IN  IF out.exc # NoException
             THEN Result("CommandError", <<NO_CREATION>>, out.L, call, 0, FALSE)
             ELSE Result("return",
                         KW_AC \o <<" ">> \o IntToStr(out.ret[1]) \o <<"/">> \o BankCode,
                         out.L, call, 1, FALSE)

\* ADCommand.execute
ADCommand_execute(args, L, net) ==
    IF Len(args) # 3 THEN CommandError(FORMAT_BOTH, L)
    ELSE LET account_info == args[2]
             amount_str == args[3]
             pieces == SplitOn(account_info, "/")
             account_number == ParseInt(pieces[1])
             amount == ParseInt(amount_str)
             out == deposit(L, account_number.val, amount.val)
             call == Call("deposit", account_number.val, amount.val, L, out)
         IN  IF ~Contains(account_info, "/") THEN CommandError(FORMAT_BOTH, L)
             ELSE IF Len(pieces) # 2
             THEN Result("ValueError", <<"too many values to unpack">>, L, NoCall, 0, FALSE)
             ELSE IF pieces[2] # BankCode
             THEN Result("return", proxy_command(pieces[2], Join(args, " "), net),
                         L, NoCall, 0, TRUE)
             ELSE IF ~account_number.ok THEN CommandError(FORMAT_BOTH, L)
             ELSE IF ~validate_account_number(account_number.val)
             THEN CommandError(FORMAT_BOTH, L)
             ELSE IF ~amount.ok THEN CommandError(FORMAT_BOTH, L)
             ELSE IF ~validate_number(amount.val) THEN CommandError(FORMAT_BOTH, L)
             ELSE IF out.exc # NoException
             THEN Result("Exception", <<out.exc>>, out.L, call, 0, FALSE)
             ELSE Result("return", KW_AD, out.L, call, 1, FALSE)

\* AWCommand.execute.  Every message of Bank is in upper case, so
\* str(e).upper() is str(e).
AWCommand_execute(args, L, net) ==
    IF Len(args) # 3 THEN CommandError(FORMAT_BOTH, L)
    ELSE LET account_info == args[2]
             amount_str == args[3]
             pieces == SplitOn(account_info, "/")
             account_number == ParseInt(pieces[1])
             amount == ParseInt(amount_str)
             out == withdraw(L, account_number.val, amount.val)
             call == Call("withdraw", account_number.val, amount.val, L, out)
         IN  IF ~Contains(account_info, "/") THEN CommandError(FORMAT_BOTH, L)
             ELSE IF Len(pieces) # 2
             THEN Result("ValueError", <<"too many values to unpack">>, L, NoCall, 0, FALSE)
             ELSE IF pieces[2] # BankCode
             THEN Result("return", proxy_command(pieces[2], Join(args, " "), net),
                         L, NoCall, 0, TRUE)
             ELSE IF ~account_number.ok THEN CommandError(FORMAT_BOTH, L)
             ELSE IF ~validate_account_number(account_number.val)
             THEN CommandError(FORMAT_BOTH, L)
             ELSE IF ~amount.ok THEN CommandError(FORMAT_BOTH, L)
             ELSE IF ~validate_number(amount.val) THEN CommandError(FORMAT_BOTH, L)
             ELSE IF out.exc = INSUFFICIENT
             THEN Result("CommandError", <<"INSUFFICIENT FUNDS.">>, out.L, call, 0, FALSE)
             ELSE IF out.exc # NoException
             THEN Result("CommandError", <<FORMAT_BOTH>>, out.L, call, 0, FALSE)
             ELSE Result("return", KW_AW, out.L, call, 1, FALSE)

\* ABCommand.execute testing the account number before the bank code.  C27
\* fails on it.
ABCommand_execute_validates_first(args, L, net) ==
    IF Len(args) # 2 THEN CommandError(FORMAT_ACCOUNT, L)
    ELSE LET account_info == args[2]
             pieces == SplitOn(account_info, "/")
             account_number == ParseInt(pieces[1])
             out == get_balance(L, account_number.val)
             call == Call("get_balance", account_number.val, 0, L, out)
         IN  IF ~Contains(account_info, "/") THEN CommandError(FORMAT_ACCOUNT, L)
             ELSE IF Len(pieces) # 2
             THEN Result("ValueError", <<"too many values to unpack">>, L, NoCall, 0, FALSE)
             ELSE IF ~account_number.ok THEN CommandError(FORMAT_ACCOUNT, L)
             ELSE IF ~validate_account_number(account_number.val)
             THEN CommandError(FORMAT_ACCOUNT, L)
             ELSE IF pieces[2] # BankCode
             THEN Result("return", proxy_command(pieces[2], Join(args, " "), net),
                         L, NoCall, 0, TRUE)
             ELSE IF out.exc # NoException
             THEN Result("Exception", <<out.exc>>, out.L, call, 0, FALSE)
             ELSE Result("return", KW_AB \o <<" ">> \o IntToStr(out.ret[1]),
                         out.L, call, 1, FALSE)

\* ABCommand.execute
ABCommand_execute(args, L, net) ==
    IF Len(args) # 2 THEN CommandError(FORMAT_ACCOUNT, L)
    ELSE LET account_info == args[2]
             pieces == SplitOn(account_info, "/")
             account_number == ParseInt(pieces[1])
             out == get_balance(L, account_number.val)
             call == Call("get_balance", account_number.val, 0, L, out)
         IN  IF ~Contains(account_info, "/") THEN CommandError(FORMAT_ACCOUNT, L)
             ELSE IF Len(pieces) # 2
             THEN Result("ValueError", <<"too many values to unpack">>, L, NoCall, 0, FALSE)
             ELSE IF pieces[2] # BankCode
             THEN Result("return", proxy_command(pieces[2], Join(args, " "), net),
                         L, NoCall, 0, TRUE)
             ELSE IF ~account_number.ok THEN CommandError(FORMAT_ACCOUNT, L)
             ELSE IF ~validate_account_number(account_number.val)
             THEN CommandError(FORMAT_ACCOUNT, L)
             ELSE IF out.exc # NoException
             THEN Result("Exception", <<out.exc>>, out.L, call, 0, FALSE)
             ELSE Result("return", KW_AB \o <<" ">> \o IntToStr(out.ret[1]),
                         out.L, call, 1, FALSE)

\* ARCommand.execute forwarding a line that names another bank, as
\* ABCommand.execute does, to a node that is not reachable.  C15 fails on
\* it.
ARCommand_execute_forwards(args, L) ==
    IF Len(args) # 2 THEN CommandError(FORMAT_ACCOUNT, L)
    ELSE LET account_info == args[2]
             pieces == SplitOn(account_info, "/")
             account_number == ParseInt(pieces[1])
             out == remove_account(L, account_number.val)
             call == Call("remove_account", account_number.val, 0, L, out)
         IN  IF ~Contains(account_info, "/") THEN CommandError(FORMAT_ACCOUNT, L)
             ELSE IF Len(pieces) # 2
             THEN Result("ValueError", <<"too many values to unpack">>, L, NoCall, 0, FALSE)
             ELSE IF pieces[2] # BankCode
             THEN Result("return",
                         proxy_command(pieces[2], Join(args, " "),
                                       [kind |-> "raise", detail |-> <<"timed out">>,
                                        received |-> <<>>]),
                         L, NoCall, 0, TRUE)
             ELSE IF ~account_number.ok THEN CommandError(FORMAT_ACCOUNT, L)
             ELSE IF ~validate_account_number(account_number.val)
             THEN CommandError(FORMAT_ACCOUNT, L)
             ELSE IF out.exc # NoException
             THEN Result("CommandError", <<HAS_FUNDS>>, out.L, call, 0, FALSE)
             ELSE Result("return", KW_AR, out.L, call, 1, FALSE)

\* ARCommand.execute
ARCommand_execute(args, L) ==
    IF Len(args) # 2 THEN CommandError(FORMAT_ACCOUNT, L)
    ELSE LET account_info == args[2]
             pieces == SplitOn(account_info, "/")
             account_number == ParseInt(pieces[1])
             out == remove_account(L, account_number.val)
             call == Call("remove_account", account_number.val, 0, L, out)
         IN  IF ~Contains(account_info, "/") THEN CommandError(FORMAT_ACCOUNT, L)
             ELSE IF Len(pieces) # 2
             THEN Result("ValueError", <<"too many values to unpack">>, L, NoCall, 0, FALSE)
             ELSE IF pieces[2] # BankCode THEN CommandError(FORMAT_ACCOUNT, L)
             ELSE IF ~account_number.ok THEN CommandError(FORMAT_ACCOUNT, L)
             ELSE IF ~validate_account_number(account_number.val)
             THEN CommandError(FORMAT_ACCOUNT, L)
             ELSE IF out.exc # NoException
             THEN Result("CommandError", <<HAS_FUNDS>>, out.L, call, 0, FALSE)
             ELSE Result("return", KW_AR, out.L, call, 1, FALSE)

\* BACommand.execute
BACommand_execute(args, L) ==
    IF Len(args) # 1
    THEN CommandError("INVALID NUMBER OF ARGUMENTS FOR BA", L)
    ELSE LET out == get_total_amount(L)
         IN  Result("return", KW_BA \o <<" ">> \o IntToStr(out.ret[1]), out.L,
                    Call("get_total_amount", 0, 0, L, out), 1, FALSE)

\* BNCommand.execute
BNCommand_execute(args, L) ==
    IF Len(args) # 1
    THEN CommandError("INVALID NUMBER OF ARGUMENTS FOR BN", L)
    ELSE LET out == get_client_count(L)
         IN  Result("return", KW_BN \o <<" ">> \o IntToStr(out.ret[1]), out.L,
                    Call("get_client_count", 0, 0, L, out), 1, FALSE)

\* the keys of the registry COMMANDS
COMMANDS ==
    {KW_HELP, KW_BC, KW_AC, KW_AD, KW_AW, KW_AB, KW_AR, KW_BA, KW_BN}

\* COMMANDS[cmd_key].execute(parts, ...)
Execute(cmd_key, args, L, net) ==
    CASE cmd_key = KW_HELP -> HELPCommand_execute(args, L)
      [] cmd_key = KW_BC -> BCCommand_execute(args, L)
      [] cmd_key = KW_AC -> ACCommand_execute(args, L)
      [] cmd_key = KW_AD -> ADCommand_execute(args, L, net)
      [] cmd_key = KW_AW -> AWCommand_execute(args, L, net)
      [] cmd_key = KW_AB -> ABCommand_execute(args, L, net)
      [] cmd_key = KW_AR -> ARCommand_execute(args, L)
      [] cmd_key = KW_BA -> BACommand_execute(args, L)
      [] cmd_key = KW_BN -> BNCommand_execute(args, L)

\* handle_bank_command: a CommandError becomes an ER reply, any other
\* exception leaves the function
handle_bank_command(command, L, net) ==
    LET parts == SplitBlank(command)
        r == Execute(parts[1], parts, L, net)
    IN  IF parts = <<>>
        THEN Result("return", ER \o <<"INVALID COMMAND">>, L, NoCall, 1, FALSE)
        ELSE IF parts[1] \notin COMMANDS
        THEN Result("return", ER \o <<"UNKNOWN COMMAND">>, L, NoCall, 1, FALSE)
        ELSE IF r.kind = "CommandError"
        THEN Result("return", ER \o r.text, r.L, r.call, r.logs + 1, FALSE)
        ELSE r

---------------------------------------------------------------------------
(* The command lines the clients send *)

\* <number>/<bank_code>
AccountToken(n, bank) == IntToStr(n) \o <<"/">> \o bank

\* the account tokens of this bank: the numbers of the range
LocalTokens ==
    {AccountToken(n, BankCode) : n \in MinAccountNumber..MaxAccountNumber}

\* an account token of another bank
RemoteToken == AccountToken(MinAccountNumber, OtherBankCode)

\* amount tokens: the amounts accepted, one below and one above them
AmountTokens == {IntToStr(n) : n \in (-1)..(MaxNumber + 1)}

\* the lines of AD, AW and AB that name an account of another bank
ForeignLines ==
    {Join(<<k, RemoteToken, IntToStr(MaxNumber)>>, " ") : k \in {KW_AD, KW_AW}}
    \cup {Join(<<KW_AB, RemoteToken>>, " ")}

\* the line of AR that names an account of another bank
ForeignAR == Join(<<KW_AR, RemoteToken>>, " ")

\* the lines, as process_bank_command receives them
CommandLines ==
    {Join(<<k>>, " ") : k \in {KW_HELP, KW_BC, KW_AC, KW_BA, KW_BN}}
    \cup {Join(<<k, a, n>>, " ") :
              k \in {KW_AD, KW_AW}, a \in LocalTokens, n \in AmountTokens}
    \cup {Join(<<k, a>>, " ") : k \in {KW_AB, KW_AR}, a \in LocalTokens}
    \cup ForeignLines
    \cup {ForeignAR}
    \cup {<<>>, <<"X", "X">>}

\* the lines whose first word is key
LinesOf(key) ==
    {c \in CommandLines : SplitBlank(c) # <<>> /\ SplitBlank(c)[1] = key}

\* the lines with no first word or with one that is no key of COMMANDS
InvalidLines ==
    {c \in CommandLines :
         IF SplitBlank(c) = <<>> THEN TRUE ELSE SplitBlank(c)[1] \notin COMMANDS}

\* what the network may do with a line: only a proxied line reaches it
NetsOf ==
    [c \in CommandLines |->
         IF handle_bank_command(c, NewBank, NoNet).proxied
         THEN NetBehaviours ELSE {NoNet}]

---------------------------------------------------------------------------
(* The threads of the server: their state *)

\* the client sockets that main accepts, one handle_client thread each
Clients == {"c1", "c2"}

\* how many lines a client sends on its connection when it is the only
\* client
MaxLines == 2

\* how many lines each client sends when all clients are connected
LinesEach == 1

\* account_lock: not held, or held by a thread of the connection of client s,
\* its unit of work ("unit") or its handle_client thread in save_data ("save")
NoHolder == [held |-> FALSE]

Holder(s, thread) == [held |-> TRUE, client |-> s, thread |-> thread]

\* the local `data` of save_data: nothing yet, or the ledger at the instant
\* the dict was built under the lock.  The dict holds next_account_number by
\* value and self.accounts and self.free_accounts by reference.
NoData == [built |-> FALSE]

Data(L) == [built |-> TRUE, ledger |-> L]

\* what handle_client sent last on the socket
NoReply == [sent |-> FALSE]

Reply(text) == [sent |-> TRUE, text |-> text]

\* the file that the file object f of save_data writes to: none while f
\* is not open; accounts.json.tmp, which open(temp_file, "w") created or
\* emptied; accounts.json, once os.replace of another thread has given that
\* file this name; a file without a name, once accounts.json was replaced
\* again
NoFd == "none"

\* handle_client before the first recv
NewClient ==
    [pc |-> "recv", line |-> 0, command |-> <<>>, reply |-> NoReply,
     data |-> NoData, fd |-> NoFd]

\* the main thread in the accept loop: it has not saved
NewMain == [pc |-> "accept", data |-> NoData, fd |-> NoFd, saves |-> 0]

\* a unit of work that is not submitted yet
NoFuture == [pc |-> "none"]

\* the server with no connection accepted
ServerIdle ==
    /\ account_lock = NoHolder
    /\ temp_file = NoFile
    /\ client = [s \in Clients |-> NewClient]
    /\ future = [s \in Clients |-> [k \in 1..MaxLines |-> NoFuture]]
    /\ main = NewMain

---------------------------------------------------------------------------
(* The state and the actions *)

\* a session of six lines on one account of this bank: the account is
\* created, one unit is deposited, the balance is read, two units and then
\* one unit are withdrawn, and the account is removed
Script ==
    <<KW_AC,
      KW_AD \o <<" ">> \o AccountToken(MinAccountNumber, BankCode) \o <<" ">> \o IntToStr(1),
      KW_AB \o <<" ">> \o AccountToken(MinAccountNumber, BankCode),
      KW_AW \o <<" ">> \o AccountToken(MinAccountNumber, BankCode) \o <<" ">> \o IntToStr(2),
      KW_AW \o <<" ">> \o AccountToken(MinAccountNumber, BankCode) \o <<" ">> \o IntToStr(1),
      KW_AR \o <<" ">> \o AccountToken(MinAccountNumber, BankCode)>>

\* how many lines of Script the commands handled last make up, the first of
\* them handled on the ledger of a bank that has just been constructed
ScriptAfter(command) ==
    IF /\ last.script >= 1
       /\ last.script < Len(Script)
       /\ command = Script[last.script + 1]
    THEN last.script + 1
    ELSE IF command = Script[1] /\ Ledger = NewBank THEN 1 ELSE 0

\* what the last step did: the line processed, what the network did with
\* it, how the handling ended and with what text, the call made on the Bank, the number of calls of
\* logger.log, whether the proxy was used and whether save_data ran.
\* deposited is <<b>> when the call withdraws from an account the amount
\* that the step before deposited in it, b being its balance before that
\* deposit, and <<>> otherwise.
Last(op, command, net, r, saved) ==
    [op |-> op, command |-> command, net |-> net, kind |-> r.kind, text |-> r.text,
     call |-> r.call, logs |-> r.logs, proxied |-> r.proxied, saved |-> saved,
     deposited |->
         IF /\ r.call.method = "withdraw"
            /\ last.call.method = "deposit"
            /\ last.call.exc = NoException
            /\ last.call.account_number = r.call.account_number
            /\ last.call.amount = r.call.amount
         THEN last.call.before ELSE <<>>,
     script |-> IF op = "command" THEN ScriptAfter(command) ELSE 0]

NoResult == Result("none", <<>>, NewBank, NoCall, 0, FALSE)

\* main: Bank(bank_code), then bank.load_data() with no accounts.json
Init ==
    /\ accounts = EmptyDict
    /\ free_accounts = <<>>
    /\ next_account_number = MinAccountNumber
    /\ file = NoFile
    /\ last = [op |-> "start", command |-> <<>>, net |-> NoNet, kind |-> "none",
               text |-> <<>>,
               call |-> NoCall, logs |-> 0, proxied |-> FALSE, saved |-> FALSE,
               deposited |-> <<>>, script |-> 0]
    /\ ServerIdle

\* process_bank_command when the unit of work ends within the timeout:
\* handle_bank_command, then bank.save_data() unless an exception left it
ProcessBankCommand(command, net) ==
    \E r \in {handle_bank_command(command, Ledger, net)} :
        /\ \A a \in DOMAIN r.L.accounts : r.L.accounts[a] <= MaxBalance
        /\ accounts' = r.L.accounts
        /\ free_accounts' = r.L.free_accounts
        /\ next_account_number' = r.L.next_account_number
        /\ file' = IF r.kind = "return" THEN save_data(r.L) ELSE file
        /\ last' = Last("command", command, net, r, r.kind = "return")
        /\ UNCHANGED server_vars

LinesHELP == LinesOf(KW_HELP)

LinesBC == LinesOf(KW_BC)

LinesAC == LinesOf(KW_AC)

LinesAD == LinesOf(KW_AD)

LinesAW == LinesOf(KW_AW)

LinesAB == LinesOf(KW_AB)

LinesAR == LinesOf(KW_AR)

LinesBA == LinesOf(KW_BA)

LinesBN == LinesOf(KW_BN)

\* a client sends one of the lines
Issue(lines) ==
    \E command \in lines : \E net \in NetsOf[command] :
        ProcessBankCommand(command, net)

HELP == Issue(LinesHELP)

BC == Issue(LinesBC)

AC == Issue(LinesAC)

AD == Issue(LinesAD)

AW == Issue(LinesAW)

AB == Issue(LinesAB)

AR == Issue(LinesAR)

BA == Issue(LinesBA)

BN == Issue(LinesBN)

\* a client sends an empty line or a line with an unknown first word
InvalidCommand == Issue(InvalidLines)

\* the process is started again: main builds a new Bank and loads
\* accounts.json
Restart ==
    LET L == load_data(NewBank, file)
    IN  /\ accounts' = L.accounts
        /\ free_accounts' = L.free_accounts
        /\ next_account_number' = L.next_account_number
        /\ UNCHANGED file
        /\ last' = Last("restart", <<>>, NoNet, NoResult, FALSE)
        /\ UNCHANGED server_vars

Next ==
    \/ HELP
    \/ BC
    \/ AC
    \/ AD
    \/ AW
    \/ AB
    \/ AR
    \/ BA
    \/ BN
    \/ InvalidCommand
    \/ Restart

Spec == Init /\ [][Next]_vars

---------------------------------------------------------------------------
(* The first start on an accounts.json that this process did not write *)

\* the keys an accounts object of such a file may have: the first account
\* number, and a word that is no number
SnapshotKeys == {IntToStr(MinAccountNumber), <<"x">>}

\* the accounts objects: every set of those keys, with balances 0 and 1
SnapshotAccounts == UNION {[K -> 0..1] : K \in SUBSET SnapshotKeys}

\* the free_accounts arrays: numbers, a string that spells a number and a
\* string that spells none
SnapshotFreeAccounts ==
    {<<>>,
     <<JNumber(MaxAccountNumber)>>,
     <<JString(IntToStr(MaxAccountNumber))>>,
     <<JString(<<"x">>)>>,
     <<JNumber(MaxAccountNumber), JString(<<"x">>)>>}

\* the values of next_account_number
SnapshotNext == {MinAccountNumber, MaxAccountNumber + 1}

\* the files: none, one that is no JSON, and the objects with any of the
\* three keys
SnapshotFiles ==
    {NoFile, Garbage}
    \cup {[exists |-> TRUE, data |-> [k \in K |-> full[k]]] :
              K \in SUBSET {"accounts", "free_accounts", "next_account_number"},
              full \in [accounts : SnapshotAccounts,
                        free_accounts : SnapshotFreeAccounts,
                        next_account_number : SnapshotNext]}

\* main before bank.load_data(): a new Bank and whatever file is there
LoadInit ==
    /\ accounts = EmptyDict
    /\ free_accounts = <<>>
    /\ next_account_number = MinAccountNumber
    /\ file \in SnapshotFiles
    /\ last = [op |-> "start", command |-> <<>>, net |-> NoNet, kind |-> "none",
               text |-> <<>>,
               call |-> NoCall, logs |-> 0, proxied |-> FALSE, saved |-> FALSE,
               deposited |-> <<>>, script |-> 0]
    /\ ServerIdle

LoadNext == Restart

LoadSpec == LoadInit /\ [][LoadNext]_vars

---------------------------------------------------------------------------
(* The lines that are not well formed: account tokens without the one "/", *)
(* more words than the command takes, numbers and amounts out of range,    *)
(* and lines that name another bank with a number or an amount that is no  *)
(* number or out of range                                                  *)

\* a word that int() does not take
NoNumber == <<"X">>

\* account tokens without "/" and with two of them
SeparatorTokens ==
    {IntToStr(MinAccountNumber),
     AccountToken(MinAccountNumber, BankCode) \o <<"/">> \o BankCode,
     IntToStr(MinAccountNumber) \o <<"/", "/">> \o BankCode,
     AccountToken(MinAccountNumber, OtherBankCode) \o <<"/">> \o OtherBankCode}

\* the lines of AD, AW, AB and AR with such a token and the right number of
\* words
SeparatorLines ==
    {Join(<<k, a, IntToStr(1)>>, " ") : k \in {KW_AD, KW_AW}, a \in SeparatorTokens}
    \cup {Join(<<k, a>>, " ") : k \in {KW_AB, KW_AR}, a \in SeparatorTokens}

\* the lines of the commands without arguments with one word more
ExtraWordLines ==
    {Join(<<k, NoNumber>>, " ") : k \in {KW_HELP, KW_BC, KW_AC, KW_BA, KW_BN}}

\* account numbers out of the range
OutOfRangeNumbers == {0 - 1, MinAccountNumber - 1, MaxAccountNumber + 1}

\* amounts out of the range
OutOfRangeAmounts == {0 - 1, MaxNumber + 1}

\* the lines that name this bank with an account number or an amount out of
\* its range
OutOfRangeLines ==
    {Join(<<k, AccountToken(n, BankCode), IntToStr(1)>>, " ") :
         k \in {KW_AD, KW_AW}, n \in OutOfRangeNumbers}
    \cup {Join(<<k, AccountToken(n, BankCode)>>, " ") :
              k \in {KW_AB, KW_AR}, n \in OutOfRangeNumbers}
    \cup {Join(<<k, AccountToken(n, BankCode), IntToStr(v)>>, " ") :
              k \in {KW_AD, KW_AW},
              n \in MinAccountNumber..MaxAccountNumber,
              v \in OutOfRangeAmounts}

\* the lines of AD, AW and AB that name another bank with an account number
\* or an amount that is no number or out of its range
ForeignInvalidLines ==
    {Join(<<k, a \o <<"/">> \o OtherBankCode, IntToStr(1)>>, " ") :
         k \in {KW_AD, KW_AW},
         a \in {NoNumber} \cup {IntToStr(n) : n \in OutOfRangeNumbers}}
    \cup {Join(<<k, RemoteToken, v>>, " ") :
              k \in {KW_AD, KW_AW},
              v \in {NoNumber} \cup {IntToStr(n) : n \in OutOfRangeAmounts}}
    \cup {Join(<<KW_AB, a \o <<"/">> \o OtherBankCode>>, " ") :
              a \in {NoNumber} \cup {IntToStr(n) : n \in OutOfRangeNumbers}}

InputLines ==
    SeparatorLines \cup ExtraWordLines \cup OutOfRangeLines
        \cup ForeignInvalidLines

\* what the network may do with such a line: only a proxied line reaches it
InputNetsOf ==
    [c \in InputLines |->
         IF handle_bank_command(c, NewBank, NoNet).proxied
         THEN NetBehaviours ELSE {NoNet}]

\* a client sends one of the lines
IssueInput(lines) ==
    \E command \in lines : \E net \in InputNetsOf[command] :
        ProcessBankCommand(command, net)

BadSeparator == IssueInput(SeparatorLines)

ExtraWord == IssueInput(ExtraWordLines)

OutOfRange == IssueInput(OutOfRangeLines)

ForeignInvalid == IssueInput(ForeignInvalidLines)

\* a client pays one unit into the first account
PayIn ==
    Issue({Join(<<KW_AD, AccountToken(MinAccountNumber, BankCode), IntToStr(1)>>, " ")})

\* the clients open accounts and pay in, and send lines that are not well
\* formed
InputNext ==
    \/ AC
    \/ PayIn
    \/ BadSeparator
    \/ ExtraWord
    \/ OutOfRange
    \/ ForeignInvalid

InputSpec == Init /\ [][InputNext]_vars

---------------------------------------------------------------------------
(* The threads of the server: their steps.  Each connection has its        *)
(* handle_client thread, and each line received is run by the one worker   *)
(* of a new executor.  A step is what a thread does between two points     *)
(* where it touches state shared with other threads: the ledger, the lock, *)
(* accounts.json.tmp and accounts.json.                                    *)

\* the lines the clients of the server send
ServerLines ==
    {Join(<<KW_BC>>, " "),
     Join(<<KW_AC>>, " "),
     Join(<<KW_AD, AccountToken(MinAccountNumber, BankCode), IntToStr(1)>>, " "),
     Join(<<KW_AB, AccountToken(MinAccountNumber, BankCode)>>, " "),
     Join(<<KW_AR, AccountToken(MinAccountNumber, BankCode)>>, " "),
     Join(<<KW_AD, RemoteToken, IntToStr(MaxNumber)>>, " ")}

\* where handle_bank_command takes a line: to proxy_command, to a method of
\* Bank, which takes account_lock, or to neither
RouteOf ==
    [c \in ServerLines |->
         LET r == handle_bank_command(c, NewBank, NoNet)
         IN  IF r.proxied THEN "proxy"
             ELSE IF r.call.method # "none" THEN "bank" ELSE "plain"]

\* account_lock taken without a test of its holder.  C12 fails on it.
LockNotTested == TRUE

\* with self.account_lock: a thread enters when no thread holds the lock
LockIsFree == account_lock = NoHolder

\* save_data holding account_lock until os.replace is done.  C17 fails on
\* it.
LockKeptAfterBuild(s) == Holder(s, "save")

\* save_data: the lock at the end of the with block, before json.dump
LockAfterBuild(s) == NoHolder

\* an executor left with shutdown(wait=False).  C18 fails on it.
ExecutorExitReturnsAtOnce == FALSE

\* process_bank_command: leaving `with ThreadPoolExecutor(...) as executor`
\* is executor.shutdown(wait=True), which joins the worker
ExecutorExitWaits == TRUE

ER_TIMEOUT == ER \o <<"TIMEOUT PROCESSING COMMAND">>

\* a unit of work in the states after executor.submit
Running(command) == [pc |-> "start", command |-> command]

Locked(command, L) == [pc |-> "locked", command |-> command, seen |-> L]

Proxying(command) == [pc |-> "proxy", command |-> command]

Done(command, r) ==
    [pc |-> "done", command |-> command, kind |-> r.kind, text |-> r.text,
     call |-> r.call]

\* a unit of work whose executor is gone
Gone == [pc |-> "gone"]

\* handle_client: recv returns the next line of client s, and
\* process_bank_command submits handle_bank_command to a new executor
handle_client_recv(s, lines) ==
    /\ client[s].pc = "recv"
    /\ client[s].line < lines
    /\ \E command \in ServerLines :
           /\ client' = [client EXCEPT ![s].pc = "result",
                                       ![s].line = @ + 1,
                                       ![s].command = command]
           /\ future' = [future EXCEPT ![s][client[s].line + 1] = Running(command)]
    /\ UNCHANGED <<accounts, free_accounts, next_account_number, file, last, main,
                   account_lock, temp_file>>

\* the worker: handle_bank_command on a line that needs neither the Bank
\* nor the proxy
execute_plain(s, k) ==
    /\ future[s][k].pc = "start"
    /\ RouteOf[future[s][k].command] = "plain"
    /\ \E r \in {handle_bank_command(future[s][k].command, Ledger, NoNet)} :
           future' = [future EXCEPT ![s][k] = Done(@.command, r)]
    /\ UNCHANGED <<accounts, free_accounts, next_account_number, file, last, main,
                   account_lock, temp_file, client>>

\* a method of Bank that keeps account_lock when its body raises.  C32 fails
\* on it.
LockKeptOnRaise(s, r) ==
    IF r.call.exc # NoException THEN Holder(s, "unit") ELSE NoHolder

\* a method of Bank: the lock at the end of `with self.account_lock`, which
\* is left by the return and by the raise alike
LockAfterBody(s, r) == NoHolder

\* the worker: the method of Bank enters `with self.account_lock`
lock_acquire(s, k) ==
    /\ future[s][k].pc = "start"
    /\ RouteOf[future[s][k].command] = "bank"
    /\ LockIsFree
    /\ account_lock' = Holder(s, "unit")
    /\ future' = [future EXCEPT ![s][k] = Locked(@.command, Ledger)]
    /\ UNCHANGED <<accounts, free_accounts, next_account_number, file, last, main,
                   temp_file, client>>

\* the worker: the body of the method on the ledger it entered with, the
\* end of the with block and the rest of execute
bank_call(s, k) ==
    /\ future[s][k].pc = "locked"
    /\ \E r \in {handle_bank_command(future[s][k].command, future[s][k].seen, NoNet)} :
           /\ accounts' = r.L.accounts
           /\ free_accounts' = r.L.free_accounts
           /\ next_account_number' = r.L.next_account_number
           /\ future' = [future EXCEPT ![s][k] = Done(@.command, r)]
           /\ account_lock' = LockAfterBody(s, r)
    /\ UNCHANGED <<file, last, main, temp_file, client>>

\* the worker: execute calls proxy_command, which waits on the network
proxy_connect(s, k) ==
    /\ future[s][k].pc = "start"
    /\ RouteOf[future[s][k].command] = "proxy"
    /\ future' = [future EXCEPT ![s][k] = Proxying(@.command)]
    /\ UNCHANGED <<accounts, free_accounts, next_account_number, file, last, main,
                   account_lock, temp_file, client>>

\* the worker: proxy_command returns
proxy_return(s, k) ==
    /\ future[s][k].pc = "proxy"
    /\ \E net \in NetBehaviours :
           \E r \in {handle_bank_command(future[s][k].command, Ledger, net)} :
               future' = [future EXCEPT ![s][k] = Done(@.command, r)]
    /\ UNCHANGED <<accounts, free_accounts, next_account_number, file, last, main,
                   account_lock, temp_file, client>>

\* process_bank_command: future.result returns what handle_bank_command
\* returned, and the executor is left; bank.save_data() is next
future_result(s) ==
    /\ client[s].pc = "result"
    /\ future[s][client[s].line].pc = "done"
    /\ future[s][client[s].line].kind = "return"
    /\ client' = [client EXCEPT ![s].pc = "save_lock"]
    /\ UNCHANGED <<accounts, free_accounts, next_account_number, file, last, main,
                   account_lock, temp_file, future>>

\* process_bank_command: future.result raises what handle_bank_command
\* raised; handle_client catches it, logs it, leaves the loop and closes the
\* socket
future_raises(s) ==
    /\ client[s].pc = "result"
    /\ future[s][client[s].line].pc = "done"
    /\ future[s][client[s].line].kind # "return"
    /\ client' = [client EXCEPT ![s].pc = "closed"]
    /\ UNCHANGED <<accounts, free_accounts, next_account_number, file, last, main,
                   account_lock, temp_file, future>>

\* process_bank_command: future.result raises TimeoutError.  response_timeout
\* passes only while the worker waits on the network: the bodies under the
\* lock do no input or output.
deadline(s) ==
    /\ client[s].pc = "result"
    /\ future[s][client[s].line].pc = "proxy"
    /\ client' = [client EXCEPT ![s].pc = "timeout"]
    /\ UNCHANGED <<accounts, free_accounts, next_account_number, file, last, main,
                   account_lock, temp_file, future>>

\* process_bank_command after TimeoutError: the executor is left, the
\* function returns and handle_client sends the reply
timeout_reply(s) ==
    /\ client[s].pc = "timeout"
    /\ ExecutorExitWaits => future[s][client[s].line].pc = "done"
    /\ client' = [client EXCEPT ![s].pc = "recv", ![s].reply = Reply(ER_TIMEOUT)]
    /\ future' = [future EXCEPT ![s][client[s].line] =
                      IF @.pc = "done" THEN Gone ELSE @]
    /\ UNCHANGED <<accounts, free_accounts, next_account_number, file, last, main,
                   account_lock, temp_file>>

\* save_data enters `with self.account_lock`
save_acquire(s) ==
    /\ client[s].pc = "save_lock"
    /\ LockIsFree
    /\ account_lock' = Holder(s, "save")
    /\ client' = [client EXCEPT ![s].pc = "save_locked"]
    /\ UNCHANGED <<accounts, free_accounts, next_account_number, file, last, main,
                   temp_file, future>>

\* save_data builds data and leaves the with block
save_build(s) ==
    /\ client[s].pc = "save_locked"
    /\ client' = [client EXCEPT ![s].pc = "save_open", ![s].data = Data(Ledger)]
    /\ account_lock' = LockAfterBuild(s)
    /\ UNCHANGED <<accounts, free_accounts, next_account_number, file, last, main,
                   temp_file, future>>

\* os.replace has given accounts.json.tmp the name accounts.json: a file
\* object that another thread has open on it now writes to accounts.json,
\* and one that is open on the accounts.json of before writes to a file
\* without a name
AfterReplace(fd) ==
    IF fd = "tmp" THEN "file" ELSE IF fd = "file" THEN "unlinked" ELSE fd

\* json.dump(data, f) and the end of the with block, taken as one write.
\* data holds the dict of the accounts and the list of the free numbers
\* themselves, so json.dump writes them as they are now, and
\* next_account_number as it was when data was built.
Dumped(data) ==
    save_data([accounts |-> accounts,
               free_accounts |-> free_accounts,
               next_account_number |-> data.ledger.next_account_number])

\* save_data: open(temp_file, "w") creates accounts.json.tmp or empties the
\* one that is there, also while another thread has it open
save_open(s) ==
    /\ client[s].pc = "save_open"
    /\ temp_file' = Garbage
    /\ client' = [client EXCEPT ![s].pc = "save_dump", ![s].fd = "tmp"]
    /\ UNCHANGED <<accounts, free_accounts, next_account_number, file, last, main,
                   account_lock, future>>

\* save_data: json.dump(data, f) into the file that f is open on, and f is
\* closed
save_dump(s) ==
    /\ client[s].pc = "save_dump"
    /\ temp_file' = IF client[s].fd = "tmp" THEN Dumped(client[s].data) ELSE temp_file
    /\ file' = IF client[s].fd = "file" THEN Dumped(client[s].data) ELSE file
    /\ client' = [client EXCEPT ![s].pc = "save_replace", ![s].fd = NoFd]
    /\ UNCHANGED <<accounts, free_accounts, next_account_number, last, main,
                   account_lock, future>>

\* save_data: os.replace(temp_file, file_name), then process_bank_command
\* returns the result and handle_client sends it unless it is empty.  With
\* accounts.json.tmp already moved away by another thread os.replace raises
\* FileNotFoundError, which handle_client catches: it closes the socket.
save_replace(s) ==
    /\ client[s].pc = "save_replace"
    /\ IF temp_file.exists
       THEN /\ file' = temp_file
            /\ temp_file' = NoFile
            /\ client' = [t \in Clients |->
                   IF t = s
                   THEN [client[s] EXCEPT
                            !.pc = "recv",
                            !.data = NoData,
                            !.reply = IF future[s][client[s].line].text # <<>>
                                      THEN Reply(future[s][client[s].line].text)
                                      ELSE NoReply]
                   ELSE [client[t] EXCEPT !.fd = AfterReplace(@)]]
            /\ main' = [main EXCEPT !.fd = AfterReplace(@)]
            /\ future' = [future EXCEPT ![s][client[s].line] = Gone]
       ELSE /\ client' = [client EXCEPT ![s].pc = "closed"]
            /\ UNCHANGED <<file, temp_file, future, main>>
    /\ UNCHANGED <<accounts, free_accounts, next_account_number, last,
                   account_lock>>

\* a step of the handle_client thread of client s, which receives up to
\* `lines` lines
handle_client(s, lines) ==
    \/ handle_client_recv(s, lines)
    \/ future_result(s)
    \/ future_raises(s)
    \/ deadline(s)
    \/ timeout_reply(s)
    \/ save_acquire(s)
    \/ save_build(s)
    \/ save_open(s)
    \/ save_dump(s)
    \/ save_replace(s)

\* a step of the worker that runs the unit of work of line k of client s
worker(s, k) ==
    \/ execute_plain(s, k)
    \/ lock_acquire(s, k)
    \/ bank_call(s, k)
    \/ proxy_connect(s, k)
    \/ proxy_return(s, k)

\* all clients connected
ServerNext ==
    \E s \in Clients :
        \/ handle_client(s, LinesEach)
        \/ \E k \in 1..MaxLines : worker(s, k)

ServerSpec == Init /\ [][ServerNext]_vars

\* the client sockets whose peer is the proxy_command of another node, which
\* has reached this node under the address OtherBankCode: the accept loop
\* and handle_client take them as any other client socket, and the lines
\* they carry name OtherBankCode
ProxyPeers == {s \in Clients : s # CHOOSE c \in Clients : TRUE}

\* one client connected
OnlyClient == CHOOSE s \in Clients : TRUE

ConnectionNext ==
    \/ handle_client(OnlyClient, MaxLines)
    \/ \E k \in 1..MaxLines : worker(OnlyClient, k)

ConnectionSpec == Init /\ [][ConnectionNext]_vars

---------------------------------------------------------------------------
(* The interrupt: main leaves the accept loop, saves and exits.  The       *)
(* handle_client threads are daemon threads: they run on while main is in  *)
(* its handler and end with the process.                                   *)

\* the process has ended: main has called sys.exit(0), or an exception has
\* left main
ProcessEnded == main.pc \in {"exit", "killed"}

\* main is in the handler of KeyboardInterrupt, in bank.save_data()
MainSaving ==
    main.pc \in {"save_lock", "save_locked", "save_open", "save_dump", "save_replace"}

\* account_lock held by main in save_data
MainHolder == Holder("main", "save")

\* SIGINT while main is in the accept loop: KeyboardInterrupt is raised in
\* the try block and main enters the handler
interrupt ==
    /\ main.pc = "accept"
    /\ main' = [main EXCEPT !.pc = "save_lock"]
    /\ UNCHANGED <<accounts, free_accounts, next_account_number, file, last,
                   account_lock, temp_file, client, future>>

\* SIGINT while main is in the handler: KeyboardInterrupt is raised in
\* save_data, where nothing catches it.  The with blocks release the lock and
\* close f, the exception leaves main and the process ends.
interrupt_again ==
    /\ MainSaving
    /\ main' = [main EXCEPT !.pc = "killed", !.fd = NoFd]
    /\ account_lock' = IF account_lock = MainHolder THEN NoHolder ELSE account_lock
    /\ UNCHANGED <<accounts, free_accounts, next_account_number, file, last,
                   temp_file, client, future>>

\* main in save_data: with self.account_lock
main_save_acquire ==
    /\ main.pc = "save_lock"
    /\ LockIsFree
    /\ account_lock' = MainHolder
    /\ main' = [main EXCEPT !.pc = "save_locked"]
    /\ UNCHANGED <<accounts, free_accounts, next_account_number, file, last,
                   temp_file, client, future>>

\* main in save_data: data is built and the with block is left
main_save_build ==
    /\ main.pc = "save_locked"
    /\ main' = [main EXCEPT !.pc = "save_open", !.data = Data(Ledger)]
    /\ account_lock' = NoHolder
    /\ UNCHANGED <<accounts, free_accounts, next_account_number, file, last,
                   temp_file, client, future>>

\* main in save_data: open(temp_file, "w")
main_save_open ==
    /\ main.pc = "save_open"
    /\ temp_file' = Garbage
    /\ main' = [main EXCEPT !.pc = "save_dump", !.fd = "tmp"]
    /\ UNCHANGED <<accounts, free_accounts, next_account_number, file, last,
                   account_lock, client, future>>

\* main in save_data: json.dump(data, f), and f is closed
main_save_dump ==
    /\ main.pc = "save_dump"
    /\ temp_file' = IF main.fd = "tmp" THEN Dumped(main.data) ELSE temp_file
    /\ file' = IF main.fd = "file" THEN Dumped(main.data) ELSE file
    /\ main' = [main EXCEPT !.pc = "save_replace", !.fd = NoFd]
    /\ UNCHANGED <<accounts, free_accounts, next_account_number, last,
                   account_lock, client, future>>

\* main in save_data: os.replace(temp_file, file_name), then
\* server_socket.close() and sys.exit(0).  With accounts.json.tmp moved away
\* by a handle_client thread os.replace raises FileNotFoundError, which
\* leaves main.
main_save_replace ==
    /\ main.pc = "save_replace"
    /\ IF temp_file.exists
       THEN /\ file' = temp_file
            /\ temp_file' = NoFile
            /\ client' = [t \in Clients |-> [client[t] EXCEPT !.fd = AfterReplace(@)]]
            /\ main' = [main EXCEPT !.pc = "exit", !.data = NoData, !.saves = @ + 1]
       ELSE /\ main' = [main EXCEPT !.pc = "killed"]
            /\ UNCHANGED <<file, temp_file, client>>
    /\ UNCHANGED <<accounts, free_accounts, next_account_number, last,
                   account_lock, future>>

\* one client connected, and the interrupt; no thread takes a step once the
\* process has ended
ShutdownNext ==
    \/ interrupt
    \/ interrupt_again
    \/ main_save_acquire
    \/ main_save_build
    \/ main_save_open
    \/ main_save_dump
    \/ main_save_replace
    \/ ~ProcessEnded /\ handle_client(OnlyClient, LinesEach)
    \/ ~ProcessEnded /\ \E k \in 1..MaxLines : worker(OnlyClient, k)

ShutdownSpec == Init /\ [][ShutdownNext]_vars

---------------------------------------------------------------------------
(* Claims C1 to C10: the ledger *)

\* the ledger after the step
LedgerAfter ==
    [accounts |-> accounts',
     free_accounts |-> free_accounts',
     next_account_number |-> next_account_number']

\* the step called method on the Bank
Calls(method) == last'.op = "command" /\ last'.call.method = method

\* C1: every live account number lies in the account range, and
\* create_account never returns a number that is live when it is called
C1_LiveNumbersInRangeAndFresh ==
    /\ [](\A a \in DOMAIN accounts :
              MinAccountNumber <= a /\ a <= MaxAccountNumber)
    /\ [][(Calls("create_account") /\ last'.call.exc = NoException)
              => last'.call.ret[1] \notin DOMAIN accounts]_vars

\* C1: an account was created under a recycled number while another one
\* was live
C1_Witness ==
    /\ last.call.method = "create_account"
    /\ last.call.exc = NoException
    /\ last.call.ret[1] < next_account_number - 1
    /\ Cardinality(DOMAIN accounts) >= 2

\* C2: no balance is below 0
C2_BalanceNonNegative == \A a \in DOMAIN accounts : accounts[a] >= 0

\* C2: a withdrawal of a positive amount took the whole balance
C2_Witness ==
    /\ last.call.method = "withdraw"
    /\ last.call.exc = NoException
    /\ last.call.amount > 0
    /\ accounts[last.call.account_number] = 0

\* C3: no balance is above the largest amount, MaxNumber
C3_BalanceAtMostMaxNumber == \A a \in DOMAIN accounts : accounts[a] <= MaxNumber

\* C4: free_accounts and the live numbers are disjoint, every free number is
\* in the account range, free_accounts is in ascending order and
\* next_account_number is at least the first number
C4_FreeAccountsInvariant ==
    /\ \A i \in 1..Len(free_accounts) :
           /\ free_accounts[i] \notin DOMAIN accounts
           /\ MinAccountNumber <= free_accounts[i]
           /\ free_accounts[i] <= MaxAccountNumber
    /\ \A i \in 1..(Len(free_accounts) - 1) : free_accounts[i] <= free_accounts[i + 1]
    /\ next_account_number >= MinAccountNumber

\* C4: an account was removed whose number is smaller than a free one
C4_Witness ==
    /\ last.call.method = "remove_account"
    /\ last.call.exc = NoException
    /\ Len(free_accounts) >= 2
    /\ free_accounts[1] = last.call.account_number

\* C5: with free_accounts not empty create_account returns its smallest
\* number, removes that number and no other from it, leaves
\* next_account_number as it is and gives the account the balance 0; with
\* free_accounts empty it returns next_account_number and adds one to it,
\* or fails
C5_RecycleSmallestFirst ==
    [][Calls("create_account") =>
           IF free_accounts # <<>>
           THEN /\ last'.call.exc = NoException
                /\ \A i \in 1..Len(free_accounts) :
                       last'.call.ret[1] <= free_accounts[i]
                /\ \E i \in 1..Len(free_accounts) :
                       /\ last'.call.ret[1] = free_accounts[i]
                       /\ free_accounts' =
                              SubSeq(free_accounts, 1, i - 1)
                                  \o SubSeq(free_accounts, i + 1, Len(free_accounts))
                /\ next_account_number' = next_account_number
                /\ accounts'[last'.call.ret[1]] = 0
           ELSE \/ /\ last'.call.exc = NoException
                   /\ last'.call.ret = <<next_account_number>>
                   /\ next_account_number' = next_account_number + 1
                   /\ accounts'[next_account_number] = 0
                   /\ free_accounts' = <<>>
                \/ /\ last'.call.exc # NoException
                   /\ LedgerAfter = Ledger]_vars

\* C5: create_account returned the smaller of two free numbers
C5_Witness ==
    /\ last.call.method = "create_account"
    /\ last.call.exc = NoException
    /\ free_accounts # <<>>
    /\ last.call.ret[1] < free_accounts[1]

\* C6: with every number issued and free_accounts empty create_account
\* fails, AC answers with the error of the bank and the ledger stays as it
\* is; when the step before removed an account in that situation,
\* create_account returns the number removed
C6_Exhaustion ==
    /\ [][(Calls("create_account")
           /\ next_account_number > MaxAccountNumber
           /\ free_accounts = <<>>)
              => /\ last'.call.exc = NO_CREATION
                 /\ last'.kind = "return"
                 /\ last'.text = ER \o <<NO_CREATION>>
                 /\ LedgerAfter = Ledger]_vars
    /\ [][(Calls("create_account")
           /\ next_account_number > MaxAccountNumber
           /\ last.call.method = "remove_account"
           /\ last.call.exc = NoException
           /\ free_accounts = <<last.call.account_number>>)
              => /\ last'.call.exc = NoException
                 /\ last'.call.ret = <<last.call.account_number>>]_vars

\* C6: AC was refused with every number issued and live
C6_Witness ==
    /\ last.call.method = "create_account"
    /\ last.call.exc = NO_CREATION
    /\ Cardinality(DOMAIN accounts) = AccountRange

\* C7: withdraw on a live account succeeds exactly when the amount is at
\* most the balance, and then takes the amount off that balance alone;
\* otherwise it fails with INSUFFICIENT FUNDS, AW answers
\* ER INSUFFICIENT FUNDS. and no balance changes
C7_WithdrawGuard ==
    [][(Calls("withdraw") /\ last'.call.account_number \in DOMAIN accounts) =>
           LET a == last'.call.account_number
               amount == last'.call.amount
           IN  IF amount <= accounts[a]
               THEN /\ last'.call.exc = NoException
                    /\ last'.text = KW_AW
                    /\ accounts' = [accounts EXCEPT ![a] = accounts[a] - amount]
               ELSE /\ last'.call.exc = INSUFFICIENT
                    /\ last'.text = ER \o <<"INSUFFICIENT FUNDS.">>
                    /\ accounts' = accounts]_vars

\* C7: a withdrawal of more than a positive balance was refused
C7_Witness ==
    /\ last.call.method = "withdraw"
    /\ last.call.exc = INSUFFICIENT
    /\ last.call.before # <<>>
    /\ last.call.before[1] > 0
    /\ last.text = ER \o <<"INSUFFICIENT FUNDS.">>

\* C8: remove_account on an account with a balance above 0 fails; the
\* account is still there with that balance, free_accounts is as it was and
\* get_balance returns that balance
C8_DeletionGuard ==
    [][(/\ Calls("remove_account")
        /\ last'.call.account_number \in DOMAIN accounts
        /\ accounts[last'.call.account_number] > 0) =>
           LET a == last'.call.account_number
           IN  /\ last'.call.exc = HAS_FUNDS
               /\ last'.text = ER \o <<HAS_FUNDS>>
               /\ accounts' = accounts
               /\ free_accounts' = free_accounts
               /\ get_balance(LedgerAfter, a).exc = NoException
               /\ get_balance(LedgerAfter, a).ret = <<accounts[a]>>]_vars

\* C8: AR was refused for an account with funds
C8_Witness ==
    /\ last.call.method = "remove_account"
    /\ last.call.exc = HAS_FUNDS
    /\ last.call.before # <<>>
    /\ last.call.before[1] > 0
    /\ last.call.account_number \in DOMAIN accounts

\* C9: deposit of an accepted amount on a live account succeeds, and the
\* withdrawal of the same amount from the same account in the next step
\* succeeds and leaves the balance the account had before the deposit
C9_DepositWithdrawRoundTrip ==
    /\ (last.call.method = "deposit" /\ last.call.before # <<>>)
           => last.call.exc = NoException
    /\ (last.call.method = "withdraw" /\ last.deposited # <<>>)
           => /\ last.call.exc = NoException
              /\ accounts[last.call.account_number] = last.deposited[1]

\* C9: a positive amount was deposited in an account with funds and
\* withdrawn again in the next step
C9_Witness ==
    /\ last.call.method = "withdraw"
    /\ last.deposited # <<>>
    /\ last.deposited[1] > 0
    /\ last.call.amount > 0

\* C10: the ledger a new Bank loads from the snapshot that the step before
\* saved is the ledger that was saved: the same accounts and balances, the
\* same free_accounts and the same next_account_number
C10_SnapshotRoundTrip ==
    [][(last'.op = "restart" /\ last.saved) => LedgerAfter = Ledger]_vars

\* C10: a ledger with an account with funds and a free number was loaded
\* from its snapshot
C10_Witness ==
    /\ last.op = "restart"
    /\ file.exists
    /\ free_accounts # <<>>
    /\ \E a \in DOMAIN accounts : accounts[a] > 0

---------------------------------------------------------------------------
(* Claims C11 to C20: restore, the proxy, the threads of the server *)

\* one of the three fields of the file cannot be loaded: there is no file,
\* it is no JSON, a key of accounts spells no int or an element of
\* free_accounts spells none
CannotBeLoaded(f) ==
    \/ ~f.exists
    \/ "data" \notin DOMAIN f
    \/ /\ f.exists
       /\ "data" \in DOMAIN f
       /\ \/ \E k \in DOMAIN GetAccounts(f.data) : ~ParseInt(k).ok
          \/ \E i \in 1..Len(GetFreeAccounts(f.data)) :
                 ~IntOf(GetFreeAccounts(f.data)[i]).ok

\* C11: after load_data on a missing file or on a file with a field that
\* cannot be loaded the ledger is the one of a new Bank: no account, no free
\* number, next_account_number 10000
C11_RestoreNeverPartial ==
    (last.op = "restart" /\ CannotBeLoaded(file)) => Ledger = NewBank

\* C11: an accounts object with the account 10000 was loaded from a file
\* whose free_accounts cannot be converted
C11_Witness ==
    /\ last.op = "restart"
    /\ CannotBeLoaded(file)
    /\ DOMAIN accounts # {}

\* the reply of AC for the account number n
ACReply(n) == KW_AC \o <<" ">> \o AccountToken(n, BankCode)

\* what execute returned for the first line of client s
Answer(s) ==
    IF future[s][1].pc = "done" THEN future[s][1].text ELSE client[s].reply.text

UnknownAccountHandled(s, k) ==
    /\ future[s][k].pc = "done"
    /\ future[s][k].call.method \in {"deposit", "get_balance"}
    /\ future[s][k].call.before = <<>>
    /\ client[s].pc # "result"

\* C13: after AD or AB on an account number of this bank that is in the
\* range and not in the ledger, the client has been sent a reply that begins
\* with ER and its connection is open
C13_UnknownAccountAnswered ==
    \A s \in Clients : \A k \in 1..MaxLines :
        UnknownAccountHandled(s, k)
            => /\ client[s].pc # "closed"
               /\ client[s].reply.sent
               /\ SubSeq(client[s].reply.text, 1, Len(ER)) = ER

C15_ARNeverProxied ==
    [][(last'.op = "command" /\ last'.command = ForeignAR)
           => /\ ~last'.proxied
              /\ last'.net = NoNet
              /\ last'.kind = "return"
              /\ SubSeq(last'.text, 1, Len(ER)) = ER
              /\ last'.call = NoCall
              /\ LedgerAfter = Ledger]_vars

\* C15: AR for the account 10000 of another bank was refused while the
\* account 10000 of this bank was there with the balance 0
C15_Witness ==
    /\ last.op = "command"
    /\ last.command = ForeignAR
    /\ last.text = ER \o <<FORMAT_ACCOUNT>>
    /\ MinAccountNumber \in DOMAIN accounts
    /\ accounts[MinAccountNumber] = 0

\* C16: once response_timeout has passed for the line of a client, the
\* handle_client thread can send ER TIMEOUT PROCESSING COMMAND, whether the
\* unit of work has finished or not
C16_TimeoutAtDeadline ==
    \A s \in Clients : client[s].pc = "timeout" => ENABLED timeout_reply(s)

\* a thread of the connection of client s waits on the network in
\* proxy_command, or opens, writes or moves accounts.json.tmp in save_data
Stalled(s) ==
    \/ \E k \in 1..MaxLines : future[s][k].pc = "proxy"
    \/ client[s].pc \in {"save_open", "save_dump", "save_replace"}

\* C17: while a thread of a connection waits in proxy_command or writes in
\* save_data, no thread of that connection holds account_lock
C17_NoLockAcrossIO ==
    \A s \in Clients :
        Stalled(s) => (account_lock.held => account_lock.client # s)

\* C17: one client waits in proxy_command, and the unit of work of another
\* has created an account and returned in the meantime
C17_Witness ==
    \E s, t \in Clients :
        /\ s # t
        /\ future[s][1].pc = "proxy"
        /\ client[s].pc = "timeout"
        /\ future[t][1].pc = "done"
        /\ future[t][1].call.method = "create_account"
        /\ future[t][1].call.exc = NoException

\* the units of work of client s that the worker of an executor is running
RunningUnits(s) ==
    {k \in 1..MaxLines : future[s][k].pc \in {"start", "locked", "proxy"}}

\* C18: of the units of work of a connection at most one is running, it is
\* the one of the line received last, the units of the lines before it have
\* returned and their executors are gone, and no unit of a later line exists
C18_OneUnitInOrder ==
    \A s \in Clients :
        /\ Cardinality(RunningUnits(s)) <= 1
        /\ \A k \in 1..MaxLines :
               /\ k \in RunningUnits(s) => k = client[s].line
               /\ (k < client[s].line /\ client[s].pc # "closed")
                      => future[s][k].pc = "gone"
               /\ k > client[s].line => future[s][k].pc = "none"

\* C18: the first line of a client was answered with the timeout reply and
\* the unit of work of its second line is changing the ledger
C18_Witness ==
    \E s \in Clients :
        /\ client[s].line = 2
        /\ client[s].reply = Reply(ER_TIMEOUT)
        /\ future[s][2].pc = "locked"

\* C19: save_data has run after a command exactly when the command returned
\* and was not proxied
C19_SaveOnlyAfterLocal ==
    last.op = "command"
        => (last.saved <=> (last.kind = "return" /\ ~last.proxied))

\* C20: what save_data writes is the ledger as it was when data was built
\* under the lock
C20_SnapshotOfOneInstant ==
    [][\A s \in Clients :
           (client[s].pc = "save_dump" /\ client'[s].pc = "save_replace")
               => (IF client[s].fd = "file" THEN file' ELSE temp_file')
                      = save_data(client[s].data.ledger)]_vars

\* C22: for every command line that is handled to a reply, logger.log is
\* called exactly once
C22_LoggedExactlyOnce ==
    (last.op = "command" /\ last.kind = "return") => last.logs = 1

\* C28: AR on a local account number in the range that is not in the ledger
\* is answered with an error reply other than the one of an account that
\* has funds
C28_UnknownAccountDistinguished ==
    (/\ last.op = "command"
     /\ last.call.method = "remove_account"
     /\ last.call.before = <<>>)
        => /\ last.kind = "return"
           /\ SubSeq(last.text, 1, Len(ER)) = ER
           /\ last.text # ER \o <<HAS_FUNDS>>

\* the replies to the lines of Script
ScriptReplies ==
    <<ACReply(MinAccountNumber),
      KW_AD,
      KW_AB \o <<" ">> \o IntToStr(1),
      ER \o <<"INSUFFICIENT FUNDS.">>,
      KW_AW,
      KW_AR>>

\* C23: the lines of Script, sent in this order to a node with an empty
\* ledger, are answered with AC <first number>/<bank code>, AD, AB <the
\* deposit>, ER INSUFFICIENT FUNDS., AW and AR, and after the last of them
\* the ledger has no account and its free list holds the first number alone
C23_SessionReplies ==
    last.script >= 1
        => /\ last.kind = "return"
           /\ last.text = ScriptReplies[last.script]
           /\ last.script = Len(Script)
                  => /\ accounts = EmptyDict
                     /\ free_accounts = <<MinAccountNumber>>

\* C23: the six lines of Script have been handled one after the other
C23_Witness ==
    /\ last.script = Len(Script)
    /\ last.text = KW_AR
    /\ free_accounts = <<MinAccountNumber>>

\* the reply is an ER reply
IsER(text) == Len(text) > Len(ER) /\ SubSeq(text, 1, Len(ER)) = ER

\* C26: a line of AD, AW, AB or AR with the right number of words whose
\* account token has no "/" or more than one is answered with an ER reply
\* and leaves the ledger as it is
C26_BadSeparatorRejected ==
    [][(last'.op = "command" /\ last'.command \in SeparatorLines)
           => /\ last'.kind = "return"
              /\ IsER(last'.text)
              /\ LedgerAfter = Ledger]_vars

\* C27: a line of AD, AW or AB that names another bank is handed to
\* proxy_command also when its account number or amount is no number or out
\* of range: no method of Bank is called, the ledger stays, and the reply
\* is what proxy_command returns
C27_RoutingBeforeValidation ==
    [][(last'.op = "command" /\ last'.command \in ForeignInvalidLines)
           => /\ last'.kind = "return"
              /\ last'.proxied
              /\ last'.call = NoCall
              /\ last'.text = proxy_command(OtherBankCode, last'.command, last'.net)
              /\ last'.net.kind = "data" => last'.text = Strip(last'.net.received)
              /\ LedgerAfter = Ledger]_vars

\* C27: AB with a word that is no number before the other bank's code was
\* answered with what the other node sent
C27_Witness ==
    /\ last.op = "command"
    /\ last.command = Join(<<KW_AB, NoNumber \o <<"/">> \o OtherBankCode>>, " ")
    /\ last.net.kind = "data"
    /\ last.text = KW_AD
    /\ accounts # EmptyDict

\* C29: a line of HELP, BC, AC, BA or BN with one word more is answered
\* with an ER reply and leaves the ledger as it is
C29_ExtraWordRejected ==
    [][(last'.op = "command" /\ last'.command \in ExtraWordLines)
           => /\ last'.kind = "return"
              /\ IsER(last'.text)
              /\ LedgerAfter = Ledger]_vars

\* C30: a line that names this bank with an account number or an amount out
\* of its range is answered with an ER reply, no method of Bank is called
\* for it, and the ledger stays as it is
C30_OutOfRangeRejected ==
    [][(last'.op = "command" /\ last'.command \in OutOfRangeLines)
           => /\ last'.kind = "return"
              /\ IsER(last'.text)
              /\ last'.call = NoCall
              /\ LedgerAfter = Ledger]_vars

\* C30: a negative amount for an account with a balance was answered with
\* an ER reply
C30_Witness ==
    /\ last.op = "command"
    /\ last.command
           = Join(<<KW_AW, AccountToken(MinAccountNumber, BankCode), IntToStr(0 - 1)>>, " ")
    /\ last.text = ER \o <<FORMAT_BOTH>>
    /\ MinAccountNumber \in DOMAIN accounts
    /\ accounts[MinAccountNumber] > 0

\* C21: accounts.json, when it is there, holds a complete snapshot
C21_NoPartialSnapshot ==
    file.exists => "data" \in DOMAIN file

\* C25: when the process has ended after an interrupt, main has completed
\* save_data exactly once since the interrupt
C25_SavedOnceBeforeExit ==
    ProcessEnded => main.saves = 1

\* C24: no line received on a connection that the proxy_command of another
\* node has opened is handed to proxy_command again
C24_NoSecondHop ==
    \A s \in ProxyPeers : \A k \in 1..MaxLines : future[s][k].pc # "proxy"

\* the remote node has closed the connection before a whole line, ended by
\* "\r\n", had come
ClosedEarly(net) ==
    /\ net.kind = "data"
    /\ \/ Len(net.received) < 2
       \/ SubSeq(net.received, Len(net.received) - 1, Len(net.received))
              # <<"\r", "\n">>

\* C31: a proxied command whose connection the remote node closes before a
\* whole line has come is answered with ER PROXY ERROR: <detail>
C31_EarlyCloseIsProxyError ==
    (last.op = "command" /\ last.proxied /\ ClosedEarly(last.net))
        => /\ last.kind = "return"
           /\ Len(last.text) > Len(ER)
           /\ SubSeq(last.text, 1, Len(ER) + 1) = ER \o PROXY_ERROR

\* the numbers in the free list
FreeNumbers == {free_accounts[i] : i \in 1..Len(free_accounts)}

\* C33: the numbers of the accounts and the numbers of the free list are
\* together the numbers from the first one to the one before
\* next_account_number, each of them once, so that the client count and the
\* length of the free list add up to next_account_number - 10000
C33_NumbersPartitioned ==
    /\ DOMAIN accounts \cup FreeNumbers
           = MinAccountNumber..(next_account_number - 1)
    /\ DOMAIN accounts \cap FreeNumbers = {}
    /\ Cardinality(FreeNumbers) = Len(free_accounts)
    /\ get_client_count(Ledger).ret[1] + Len(free_accounts)
           = next_account_number - MinAccountNumber

\* C33: an account was created under a recycled number while another
\* number is free and another account is live
C33_Witness ==
    /\ last.op = "command"
    /\ last.call.method = "create_account"
    /\ last.call.exc = NoException
    /\ last.call.ret[1] < next_account_number - 1
    /\ FreeNumbers # {}
    /\ Cardinality(DOMAIN accounts) >= 1

\* the total that get_total_amount returns on ledger L
TotalFunds(L) == get_total_amount(L).ret[1]

\* C34: the total is 0 at the start, a deposit that returns adds its amount
\* to it, a withdrawal that returns takes its amount from it, and every
\* other step, a restart included, leaves it as it is
C34_TotalIsDepositsLessWithdrawals ==
    /\ [](last.op = "start" => TotalFunds(Ledger) = 0)
    /\ [][TotalFunds(LedgerAfter)
              = TotalFunds(Ledger)
                  + (IF Calls("deposit") /\ last'.call.exc = NoException
                     THEN last'.call.amount
                     ELSE IF Calls("withdraw") /\ last'.call.exc = NoException
                     THEN 0 - last'.call.amount
                     ELSE 0)]_vars

\* C34: a withdrawal of a part of a balance has returned while another
\* account holds funds
C34_Witness ==
    /\ last.op = "command"
    /\ last.call.method = "withdraw"
    /\ last.call.exc = NoException
    /\ last.call.amount > 0
    /\ last.call.before[1] > last.call.amount
    /\ \E a \in DOMAIN accounts :
           a # last.call.account_number /\ accounts[a] > 0

\* C35: a command that is answered with an ER reply leaves accounts,
\* free_accounts and next_account_number as they were
C35_ErrorLeavesLedger ==
    [][(last'.op = "command" /\ last'.kind = "return" /\ IsER(last'.text))
           => LedgerAfter = Ledger]_vars

\* C35: a withdrawal of more than the balance of an account with funds was
\* answered with the ER reply for insufficient funds
C35_Witness ==
    /\ last.op = "command"
    /\ last.call.method = "withdraw"
    /\ last.call.exc = INSUFFICIENT
    /\ last.text = ER \o <<"INSUFFICIENT FUNDS.">>
    /\ last.call.before # <<>>
    /\ accounts[last.call.account_number] > 0

\* the units of work that are in the body of a method of Bank, and the
\* handle_client threads that are in the with block of save_data
InLedgerOperation ==
    {<<s, "unit">> : s \in {c \in Clients : \E k \in 1..MaxLines : future[c][k].pc = "locked"}}
    \cup {<<s, "save">> : s \in {c \in Clients : client[c].pc = "save_locked"}}

=============================================================================
